---- MODULE Spec2Model ----
(***************************************************************************)
(* Checkpoint, column-family export/import and export-metadata codec of    *)
(* the rocksdb binding (src/src/checkpoint.rs), as state machines.         *)
(*                                                                         *)
(*   Spec        one client thread: put/delete, Checkpoint::new,           *)
(*               Checkpoint::create_checkpoint, drop of handles and store  *)
(*   SpecConc    create_checkpoint racing with a writer thread             *)
(*   SpecExport  export_column_family and create_cf_with_import            *)
(*   SpecCodec   ExportImportFilesMetaData::save / load                    *)
(*                                                                         *)
(* The native engine behind the ffi:: calls and the parts of the crate     *)
(* outside checkpoint.rs (to_cpath, DB::put, DB::create_cf_with_import)    *)
(* are modelled from their documented contract.                            *)
(***************************************************************************)
EXTENDS Integers, Sequences, FiniteSets, TLC

VARIABLES
    db,           \* source store: [open, cfs, data]
    checkpoints,  \* Checkpoint<'db> objects by slot: Null or [inner]
    writtenSince, \* history: the store's content changed since the Checkpoint was made
    fs,           \* checkpoint directories on disk: C path -> store content or NoDir
    atCall,       \* history: content of the store when create_checkpoint(dir) returned Ok
    last,         \* the last call made by the client and what it returned
    exportFs,     \* export directories on disk: C path -> the SST files in it
    bundle,       \* the ExportImportFilesMetaData the client holds
    exportedAt,   \* history: column family and content the bundle was exported from
    dst,          \* destination store of create_cf_with_import: [cfs, data]
    origin,       \* history: for an imported column family, the content exported
    call,         \* SpecConc: the create_checkpoint / export_column_family in flight
    versions,     \* SpecConc history: the store's content after each write so far
    mem,          \* SpecCodec: the export bundle the client holds
    file,         \* SpecCodec: the metadata file at the path given to save / load
    out,          \* SpecCodec: what the last save / load did
    running       \* SpecCodec: FALSE once the process has panicked

storeVars == <<db, checkpoints, writtenSince, fs, atCall, last>>
exportVars == <<exportFs, bundle, exportedAt, dst, origin>>
concVars == <<call, versions>>
codecVars == <<mem, file, out, running>>
vars == <<storeVars, exportVars, concVars, codecVars>>

----------------------------------------------------------------------------
(* Values *)

\* largest number of Checkpoint objects alive at once
MaxHandles == 2
\* largest number of writes the writer thread of SpecConc makes
MaxWrites == 3

Keys == {"k1", "k2"}
\* the bytewise order of the keys
KeyLess(a, b) == a = "k1" /\ b = "k2"
Vals == {"v1", "v2"}
NoVal == "absent"

\* a column family's logical content: the value get_cf() returns for each key
Contents == [Keys -> Vals \cup {NoVal}]
Empty == [k \in Keys |-> NoVal]

\* column families: every store has "default"; others are created by name
CFNames == {"default", "cf1", "cf2"}
NoData == [c \in CFNames |-> Empty]

\* no Checkpoint object in the slot
Null == [inner |-> "null"]

\* no directory at a path / a checkpoint directory holding `data`
NoDir == [present |-> FALSE, cfs |-> {}, data |-> NoData]
DirOf(store) == [present |-> TRUE, cfs |-> store.cfs, data |-> store.data]

\* Paths are byte strings.  D1 = "d1", D2 = "d2", BadPath = "d\01" holds an
\* interior NUL and has no C-string form.
D1 == <<100, 49>>
D2 == <<100, 50>>
BadPath == <<100, 0, 49>>
Paths == {D1, D2, BadPath}
Dirs == {D1, D2}

Handles == 1..MaxHandles

\* Export directories: E1 = "e1"; EBad = "e\0" holds an interior NUL.
E1 == <<101, 49>>
EBad == <<101, 0>>
ExportPaths == {E1, EBad}
ExportDirs == {E1}
\* U+FFFD, the replacement character, in UTF-8
Replacement == <<239, 191, 189>>

Comparators == {"leveldb.BytewiseComparator", "rocksdb.ReverseBytewiseComparator"}
\* Options::default(): the comparator of every column family of the source
DefaultComparator == "leveldb.BytewiseComparator"

NoExportDir == [present |-> FALSE, files |-> {}]
NoBundle == [inner |-> "null", db_comparator_name |-> "", files |-> <<>>]
NoExport == [cf |-> "", data |-> Empty]

Idle == [pc |-> "idle", kind |-> "", path |-> <<>>, view |-> NoData,
         lo |-> 0, hi |-> 0, ok |-> FALSE]

----------------------------------------------------------------------------
(* Export bundles and their JSON form *)

\* longest string drawn for a bundle's string fields, and most files in a bundle
MaxStrLen == 1
MaxFiles == 1

\* struct RocksdbLevelMetaData: its fields by declared type
StringFields == {"column_family_name", "relative_filename", "name", "directory",
                 "db_path", "smallestkey", "largestkey", "file_checksum",
                 "file_checksum_func_name"}
I32Fields == {"level", "file_type", "size", "being_compacted"}
U8Fields == {"temperature"}
U64Fields == {"file_number", "smallest_seqno", "largest_seqno", "num_reads_sampled",
              "num_entries", "num_deletions", "oldest_blob_file_number",
              "oldest_ancester_time", "file_creation_time"}
FileFields == StringFields \cup I32Fields \cup U8Fields \cup U64Fields
\* struct RocksdbExportImportFilesMetaData
BundleFields == {"db_comparator_name", "files"}

\* File sizes are counted in MiB here: `size: i32` holds a byte count below
\* 2048 MiB, the engine's own size is 64 bits wide.
I32MaxMiB == 2047
\* `temperature: u8`
U8Max == 255

\* Strings are sequences of characters; 0 is NUL, 65 is "A"
Chars == {0, 65}
RECURSIVE StrsUpTo(_)
StrsUpTo(n) ==
    IF n = 0 THEN {<<>>}
    ELSE LET shorter == StrsUpTo(n - 1)
         IN shorter \cup {Append(t, c) : t \in shorter, c \in Chars}
Strs == StrsUpTo(MaxStrLen)
Sizes == {0, 1, I32MaxMiB, I32MaxMiB + 1}

\* The i-th file of a bundle, as the engine describes it.  Key, size and level
\* vary; the other fields hold zero or the empty string, or follow from i.
EngineFile(i, key, size, level) ==
    [column_family_name |-> <<65>>, level |-> level, relative_filename |-> <<>>,
     name |-> <<65>>, file_number |-> i, file_type |-> 0, directory |-> <<65>>,
     db_path |-> <<65>>, size |-> size, smallest_seqno |-> 0, largest_seqno |-> i,
     smallestkey |-> key, largestkey |-> key \o <<65>>, num_reads_sampled |-> 0,
     being_compacted |-> 0, num_entries |-> 1, num_deletions |-> 0, temperature |-> 0,
     oldest_blob_file_number |-> 0, oldest_ancester_time |-> 0,
     file_creation_time |-> 0, file_checksum |-> <<>>, file_checksum_func_name |-> <<>>]

RECURSIVE FileSeqs(_)
FileSeqs(n) ==
    IF n = 0 THEN {<<>>}
    ELSE LET shorter == FileSeqs(n - 1)
         IN shorter \cup
            {Append(fl, EngineFile(Len(fl) + 1, key, size, level)) :
                fl \in {x \in shorter : Len(x) = n - 1},
                key \in Strs, size \in Sizes, level \in {0, 1}}

\* The valid bundles the client may hold
Bundles ==
    [db_comparator_name : {<<65>>}, files : FileSeqs(MaxFiles)]
EmptyBundle == [db_comparator_name |-> <<65>>, files |-> <<>>]

\* What a file holds: a JSON document (its object), or text that is no JSON
JsonText(obj) == [kind |-> "json", obj |-> obj]
NotJson(kind) == [kind |-> kind, obj |-> [none |-> TRUE]]
NoFile == [present |-> FALSE, text |-> NotJson("empty"), by |-> "nobody"]
NoOut == [op |-> "none", res |-> "Ok", created |-> FALSE, bundle |-> EmptyBundle,
          wellFormed |-> TRUE]

\* ffi::rocksdb_marshal_export_import_files_metadata: the bundle as JSON, every
\* field under its name, numbers in full
rocksdb_marshal_export_import_files_metadata(b) == JsonText(b)

\* A number fits the field's declared type
InRange(f, v) ==
    IF f = "size" THEN v >= 0 /\ v <= I32MaxMiB
    ELSE IF f \in U8Fields THEN v >= 0 /\ v <= U8Max
    ELSE IF f \in U64Fields THEN v >= 0
    ELSE TRUE

FileObjectOk(o) ==
    /\ FileFields \subseteq DOMAIN o
    /\ \A f \in FileFields \ StringFields : InRange(f, o[f])

\* serde_json::from_str::<RocksdbExportImportFilesMetaData>: every field of
\* the two structs must be there and fit its type; other fields are ignored
from_str(text) ==
    IF text.kind # "json" THEN [ok |-> FALSE, val |-> EmptyBundle]
    ELSE IF ~(BundleFields \subseteq DOMAIN text.obj) THEN [ok |-> FALSE, val |-> EmptyBundle]
    ELSE IF \E i \in 1..Len(text.obj.files) : ~FileObjectOk(text.obj.files[i])
         THEN [ok |-> FALSE, val |-> EmptyBundle]
    ELSE [ok |-> TRUE,
          val |-> [db_comparator_name |-> text.obj.db_comparator_name,
                   files |-> [i \in 1..Len(text.obj.files) |->
                                [f \in FileFields |-> text.obj.files[i][f]]]]]

\* serde_json::to_string_pretty
to_string_pretty(metadata) == JsonText(metadata)

\* CString::new succeeds on every string field of the file
FileCStringsOk(o) == \A f \in StringFields : \A i \in 1..Len(o[f]) : o[f][i] # 0

\* ffi::rocksdb_new_live_file_metadata: the engine's record of one file, built
\* from the C strings and numbers handed over
rocksdb_new_live_file_metadata(o) == o

\* ExportImportFilesMetaData::load: File::open, read_to_string,
\* serde_json::from_str(..).unwrap(), CString::new(..).unwrap() on every string,
\* ffi_try! on the engine's constructors
load(f, openOk, readOk, engineOk) ==
    IF ~f.present \/ ~openOk THEN [res |-> "OpenFailed", bundle |-> EmptyBundle]
    ELSE IF ~readOk THEN [res |-> "ReadFailed", bundle |-> EmptyBundle]
    ELSE LET metadata == from_str(f.text) IN
         IF ~metadata.ok THEN [res |-> "Panic", bundle |-> EmptyBundle]
         ELSE IF \E i \in 1..Len(metadata.val.files) : ~FileCStringsOk(metadata.val.files[i])
              THEN [res |-> "Panic", bundle |-> EmptyBundle]
         ELSE IF \E i \in 1..Len(metadata.val.db_comparator_name) :
                    metadata.val.db_comparator_name[i] = 0
              THEN [res |-> "Panic", bundle |-> EmptyBundle]
         ELSE IF ~engineOk THEN [res |-> "EngineError", bundle |-> EmptyBundle]
         ELSE [res |-> "Ok",
               bundle |-> [db_comparator_name |-> metadata.val.db_comparator_name,
                           files |-> [i \in 1..Len(metadata.val.files) |->
                               rocksdb_new_live_file_metadata(metadata.val.files[i])]]]

\* ExportImportFilesMetaData::save: File::create, ffi_try! on the marshal,
\* serde_json::from_str(..).unwrap(), write_all(to_string_pretty(..))
save(b, f, createOk, marshalOk, writeOk) ==
    IF ~createOk THEN [res |-> "CreateFailed", file |-> f]
    ELSE LET created == [present |-> TRUE, text |-> NotJson("empty"), by |-> "save"] IN
         IF ~marshalOk THEN [res |-> "EngineError", file |-> created]
         ELSE LET metadata == from_str(rocksdb_marshal_export_import_files_metadata(b)) IN
              IF ~metadata.ok THEN [res |-> "Panic", file |-> created]
              ELSE IF ~writeOk
                   THEN [res |-> "WriteFailed",
                         file |-> [created EXCEPT !.text = NotJson("partial")]]
              ELSE [res |-> "Ok",
                    file |-> [created EXCEPT !.text = to_string_pretty(metadata.val)]]

----------------------------------------------------------------------------
(* Pure helpers *)

HasNul(bytes) == \E i \in 1..Len(bytes) : bytes[i] = 0

\* ffi_util::to_cpath: CString::new on the path's bytes; an interior NUL is an error
to_cpath(path) ==
    IF HasNul(path) THEN [ok |-> FALSE, val |-> <<>>]
    ELSE [ok |-> TRUE, val |-> path]

\* const LOG_SIZE_FOR_FLUSH: u64 = 0
LOG_SIZE_FOR_FLUSH == 0

\* ffi::rocksdb_checkpoint_create: a full copy of the store, as of the call, in a
\* directory that must not exist yet; io is whether the file system cooperates.
\* log_size_for_flush only bounds recovery work, not what the copy holds.
rocksdb_checkpoint_create(store, disk, cpath, log_size_for_flush, io) ==
    IF disk[cpath].present \/ ~io THEN [ok |-> FALSE, disk |-> disk]
    ELSE [ok |-> TRUE, disk |-> [disk EXCEPT ![cpath] = DirOf(store)]]

\* A create_checkpoint that drops the engine's status instead of ffi_try!-ing it.
create_checkpoint_unchecked(store, disk, path, io) ==
    LET c == to_cpath(path) IN
    IF ~c.ok THEN [ok |-> FALSE, disk |-> disk]
    ELSE [ok |-> TRUE,
          disk |-> rocksdb_checkpoint_create(store, disk, c.val, LOG_SIZE_FOR_FLUSH, io).disk]

\* Checkpoint::create_checkpoint: to_cpath(path)?, then ffi_try!(rocksdb_checkpoint_create)
create_checkpoint(store, disk, path, io) ==
    LET c == to_cpath(path) IN
    IF ~c.ok THEN [ok |-> FALSE, disk |-> disk]
    ELSE LET r == rocksdb_checkpoint_create(store, disk, c.val, LOG_SIZE_FOR_FLUSH, io) IN
         IF ~r.ok THEN [ok |-> FALSE, disk |-> disk]
         ELSE [ok |-> TRUE, disk |-> r.disk]

\* Path::to_string_lossy: every byte that is not part of valid UTF-8 (here: any
\* byte above 127) becomes U+FFFD
RECURSIVE to_string_lossy(_)
to_string_lossy(bytes) ==
    IF bytes = <<>> THEN <<>>
    ELSE (IF Head(bytes) > 127 THEN Replacement ELSE <<Head(bytes)>>)
         \o to_string_lossy(Tail(bytes))

\* The keys of a column family's content that hold a value, in key order
RECURSIVE SortedKeys(_)
SortedKeys(ks) ==
    IF ks = {} THEN <<>>
    ELSE LET k == CHOOSE x \in ks : \A y \in ks : x = y \/ KeyLess(x, y)
         IN <<k>> \o SortedKeys(ks \ {k})
LiveKeys(content) == {k \in Keys : content[k] # NoVal}

\* The live SST files of a column family: one sorted file per key range written;
\* here every live key sits in a file of its own, named after it.
SstFile(content, k) == [name |-> k, key |-> k, val |-> content[k]]
LiveFiles(content) == {SstFile(content, k) : k \in LiveKeys(content)}

\* rocksdb LiveFileMetaData for one exported file (the fields import relies on)
FileMetaData(cf, cpath, f) ==
    [column_family_name |-> cf, db_path |-> cpath, name |-> f.name,
     smallestkey |-> f.key, largestkey |-> f.key, num_entries |-> 1]

\* ffi::rocksdb_column_family_export: links the live files of cf into a
\* directory that must not exist yet and describes them in a bundle
rocksdb_column_family_export(store, cf, disk, cpath, io) ==
    IF disk[cpath].present \/ ~io
    THEN [ok |-> FALSE, disk |-> disk, bundle |-> NoBundle]
    ELSE LET content == store.data[cf]
             order == SortedKeys(LiveKeys(content))
         IN [ok |-> TRUE,
             disk |-> [disk EXCEPT ![cpath] =
                          [present |-> TRUE, files |-> LiveFiles(content)]],
             bundle |-> [inner |-> "metadata",
                         db_comparator_name |-> DefaultComparator,
                         files |-> [i \in 1..Len(order) |->
                                      FileMetaData(cf, cpath, SstFile(content, order[i]))]]]

\* An export_column_family that drops the engine's status and wraps whatever
\* pointer came back.
export_column_family_unchecked(store, cf, disk, path, io) ==
    LET lossy == to_string_lossy(path) IN
    IF HasNul(lossy) THEN [ok |-> FALSE, disk |-> disk, bundle |-> NoBundle]
    ELSE LET r == rocksdb_column_family_export(store, cf, disk, lossy, io) IN
         [ok |-> TRUE, disk |-> r.disk,
          bundle |-> [r.bundle EXCEPT !.inner = "metadata",
                                      !.db_comparator_name = DefaultComparator]]

\* Checkpoint::export_column_family: CString::new(path.to_string_lossy()), then
\* ffi_try!(rocksdb_column_family_export)
export_column_family(store, cf, disk, path, io) ==
    LET lossy == to_string_lossy(path) IN
    IF HasNul(lossy) THEN [ok |-> FALSE, disk |-> disk, bundle |-> NoBundle]
    ELSE LET r == rocksdb_column_family_export(store, cf, disk, lossy, io) IN
         IF ~r.ok THEN [ok |-> FALSE, disk |-> disk, bundle |-> NoBundle]
         ELSE [ok |-> TRUE, disk |-> r.disk, bundle |-> r.bundle]

\* The file a FileMetaData names, as found on disk now (the empty set if gone)
FileOnDisk(disk, m) ==
    IF m.db_path \in DOMAIN disk
    THEN {f \in disk[m.db_path].files : f.name = m.name}
    ELSE {}

\* First failed precondition of an import, or "Ok"
ImportError(store, name, comparator, b, disk) ==
    IF name \in store.cfs THEN "AlreadyExists"
    ELSE IF b.db_comparator_name # comparator THEN "ComparatorMismatch"
    ELSE IF \E i \in 1..Len(b.files) : FileOnDisk(disk, b.files[i]) = {} THEN "MissingFile"
    ELSE "Ok"

\* Content of a column family made of the files a bundle names
ImportedContent(b, disk) ==
    [k \in Keys |->
        LET fsOfK == UNION {{f \in FileOnDisk(disk, b.files[i]) : f.key = k} :
                              i \in 1..Len(b.files)}
        IN IF fsOfK = {} THEN NoVal ELSE (CHOOSE f \in fsOfK : TRUE).val]

\* An import that registers the files one by one and stops at the first one
\* missing, leaving the column family behind.
create_cf_with_import_partial(store, name, comparator, b, disk) ==
    LET e == ImportError(store, name, comparator, b, disk) IN
    IF e \in {"AlreadyExists", "ComparatorMismatch"} THEN [err |-> e, store |-> store]
    ELSE [err |-> e,
          store |-> [store EXCEPT !.cfs = @ \cup {name},
                                  !.data[name] = ImportedContent(b, disk)]]

\* DB::create_cf_with_import(name, opts, metadata): a new column family made of
\* the bundle's files, or an error and no change
create_cf_with_import(store, name, comparator, b, disk) ==
    LET e == ImportError(store, name, comparator, b, disk) IN
    IF e # "Ok" THEN [err |-> e, store |-> store]
    ELSE [err |-> e,
          store |-> [store EXCEPT !.cfs = @ \cup {name},
                                  !.data[name] = ImportedContent(b, disk)]]

\* A copy that takes key k2 from the store as it is when the files are copied
\* instead of from the captured version.
VersionCopied_per_key(view, now) ==
    [view EXCEPT !.data = [c \in CFNames |->
        [k \in Keys |-> IF k = "k2" THEN now.data[c][k] ELSE view.data[c][k]]]]

\* What the engine copies once it has captured a version of the store: that
\* version, whatever has been written since
VersionCopied(view, now) == view

\* DB::get_cf on the destination store
DstGet(cf, k) == IF cf \in dst.cfs THEN dst.data[cf][k] ELSE NoVal

\* Checkpoint::new: the object wraps the engine's checkpoint object; a null
\* pointer from the engine is an error and no object is made
Checkpoint_new(engineOk) ==
    IF engineOk THEN [inner |-> "checkpoint"] ELSE Null

\* A Checkpoint declared without the 'db parameter borrows nothing.
Borrows_no_lifetime(h) == FALSE

\* struct Checkpoint<'db> { inner, _db: PhantomData<&'db ()> }: while the object
\* lives, the store it was made from is borrowed.
Borrows(h) == checkpoints[h] # Null

\* DB::get_cf on a store opened at a checkpoint directory: None for a key the
\* directory's store does not hold
OpenGet(dir, cf, k) == IF cf \in fs[dir].cfs THEN fs[dir].data[cf][k] ELSE NoVal

----------------------------------------------------------------------------
(* Spec: one client thread *)

Call(op, ok, path, h) == [op |-> op, ok |-> ok, path |-> path, h |-> h, dbOpen |-> db.open]
NoCall == [op |-> "none", ok |-> TRUE, path |-> <<>>, h |-> 0, dbOpen |-> TRUE]

Init ==
    /\ db = [open |-> TRUE, cfs |-> {"default"}, data |-> NoData]
    /\ checkpoints = [h \in Handles |-> Null]
    /\ writtenSince = [h \in Handles |-> FALSE]
    /\ fs = [d \in Dirs |-> NoDir]
    /\ atCall = [d \in Dirs |-> NoDir]
    /\ last = NoCall
    /\ exportFs = [d \in ExportDirs |-> NoExportDir]
    /\ bundle = NoBundle
    /\ exportedAt = NoExport
    /\ dst = [cfs |-> {"default"}, data |-> NoData]
    /\ origin = [c \in CFNames |-> NoExport]
    /\ call = Idle
    /\ versions = <<NoData>>
    /\ mem = EmptyBundle
    /\ file = NoFile
    /\ out = NoOut
    /\ running = TRUE

\* DB::put_cf (DB::put is put_cf on "default")
Put(cf, k, v) ==
    /\ db.open
    /\ cf \in db.cfs
    /\ db' = [db EXCEPT !.data[cf][k] = v]
    /\ writtenSince' = [h \in Handles |->
            writtenSince[h] \/ (checkpoints[h] # Null /\ db.data[cf][k] # v)]
    /\ last' = Call("put", TRUE, <<>>, 0)
    /\ UNCHANGED <<checkpoints, fs, atCall, exportVars, concVars, codecVars>>

\* DB::delete_cf
Delete(cf, k) ==
    /\ db.open
    /\ cf \in db.cfs
    /\ db' = [db EXCEPT !.data[cf][k] = NoVal]
    /\ writtenSince' = [h \in Handles |->
            writtenSince[h] \/ (checkpoints[h] # Null /\ db.data[cf][k] # NoVal)]
    /\ last' = Call("delete", TRUE, <<>>, 0)
    /\ UNCHANGED <<checkpoints, fs, atCall, exportVars, concVars, codecVars>>

\* Checkpoint::new(&db): the engine's checkpoint object, or an error when it
\* hands back none
CheckpointNew(h, engineOk) ==
    /\ db.open
    /\ checkpoints[h] = Null
    /\ checkpoints' = [checkpoints EXCEPT ![h] = Checkpoint_new(engineOk)]
    /\ last' = Call("new", engineOk, <<>>, h)
    /\ UNCHANGED <<db, writtenSince, fs, atCall, exportVars, concVars, codecVars>>

\* Checkpoint::create_checkpoint(&self, path)
CreateCheckpoint(h, path, io) ==
    /\ checkpoints[h] # Null
    /\ LET r == create_checkpoint(db, fs, path, io) IN
        /\ fs' = r.disk
        /\ atCall' = IF r.ok THEN [atCall EXCEPT ![path] = DirOf(db)] ELSE atCall
        /\ last' = Call("create_checkpoint", r.ok, path, h)
    /\ UNCHANGED <<db, checkpoints, writtenSince, exportVars, concVars, codecVars>>

\* impl Drop for Checkpoint
DropCheckpoint(h) ==
    /\ checkpoints[h] # Null
    /\ checkpoints' = [checkpoints EXCEPT ![h] = Null]
    /\ writtenSince' = [writtenSince EXCEPT ![h] = FALSE]
    /\ last' = Call("drop", TRUE, <<>>, h)
    /\ UNCHANGED <<db, fs, atCall, exportVars, concVars, codecVars>>

\* The store handle goes out of scope; the borrow checker admits it only once
\* no Checkpoint<'db> borrows it.
DropDB ==
    /\ db.open
    /\ \A h \in Handles : ~Borrows(h)
    /\ db' = [db EXCEPT !.open = FALSE]
    /\ last' = Call("drop_db", TRUE, <<>>, 0)
    /\ UNCHANGED <<checkpoints, writtenSince, fs, atCall, exportVars, concVars, codecVars>>

Next ==
    \/ \E k \in Keys, v \in Vals : Put("default", k, v)
    \/ \E k \in Keys : Delete("default", k)
    \/ \E h \in Handles, e \in BOOLEAN : CheckpointNew(h, e)
    \/ \E h \in Handles, p \in Paths, io \in BOOLEAN : CreateCheckpoint(h, p, io)
    \/ \E h \in Handles : DropCheckpoint(h)
    \/ DropDB

Spec == Init /\ [][Next]_vars

----------------------------------------------------------------------------
(* Claims checked under Spec *)

\* C1: after create_checkpoint(dir) has returned Ok, a store opened at dir
\* returns for every key the value the source store held at the moment of the
\* call, whatever is written to the source afterwards.
C1_CheckpointIsSnapshotAtCall ==
    \A d \in Dirs : atCall[d].present =>
        /\ fs[d].present
        /\ fs[d].cfs = atCall[d].cfs
        /\ \A cf \in CFNames, k \in Keys : OpenGet(d, cf, k) = atCall[d].data[cf][k]

\* a checkpoint holding a key written before the call, while the source has
\* since overwritten that key and added one the checkpoint does not show
C1_Witness ==
    \E d \in Dirs, k1 \in Keys, k2 \in Keys :
        /\ atCall[d].present
        /\ OpenGet(d, "default", k1) \in Vals
        /\ db.data["default"][k1] \in Vals \ {OpenGet(d, "default", k1)}
        /\ OpenGet(d, "default", k2) = NoVal
        /\ db.data["default"][k2] \in Vals

\* one step: directories made before stay as they are, and a directory whose
\* create_checkpoint has just returned Ok holds the store as it is now
C2_Step ==
    /\ \A d \in Dirs : fs[d].present => fs'[d] = fs[d]
    /\ \A d \in Dirs : atCall'[d] # atCall[d] => fs'[d] = DirOf(db)

\* C2: each successful create_checkpoint to a fresh directory stores the state
\* of the store at that call (not at Checkpoint::new), and neither a later
\* create_checkpoint nor a later write changes a directory made before.
C2_IndependentSnapshots == [][C2_Step]_vars

\* d2 was just made, by a Checkpoint object created before the store changed;
\* d1, made earlier, still holds its own, different content
C2_Witness ==
    /\ last.op = "create_checkpoint" /\ last.ok /\ last.path = D2
    /\ writtenSince[last.h]
    /\ fs[D1].present /\ fs[D2].present
    /\ fs[D1] = atCall[D1]
    /\ fs[D2] = DirOf(db)
    /\ fs[D1].data # fs[D2].data

\* one step: a create_checkpoint on an existing directory or on a path with an
\* interior NUL fails and changes nothing
C8_Step ==
    (/\ last'.op = "create_checkpoint"
     /\ \/ HasNul(last'.path)
        \/ last'.path \in Dirs /\ fs[last'.path].present)
    => (~last'.ok /\ fs' = fs /\ db' = db)

\* C8: create_checkpoint(path) on an existing directory, or on a path with no
\* C-string form, returns an error and changes neither disk nor store.
C8_FailsOnExistingOrBadPath == [][C8_Step]_vars

\* a call on a directory that a checkpoint made earlier, while the store has
\* moved on, has just returned an error and the directory is as it was
C8_WitnessExisting ==
    /\ last.op = "create_checkpoint" /\ ~last.ok
    /\ last.path \in Dirs /\ fs[last.path].present /\ fs[last.path] = atCall[last.path]
    /\ fs[last.path].data # db.data

\* a call on the path with the interior NUL has just returned an error
C8_WitnessBadPath ==
    /\ last.op = "create_checkpoint" /\ ~last.ok
    /\ last.path = BadPath
    /\ \A d \in Dirs : ~fs[d].present
    /\ db.data # NoData

----------------------------------------------------------------------------
(* SpecExport: export_column_family and create_cf_with_import *)

\* the source store after create_cf("cf1") and create_cf("cf2"); the
\* destination store freshly opened
InitExport ==
    /\ db = [open |-> TRUE, cfs |-> CFNames, data |-> NoData]
    /\ checkpoints = [h \in Handles |-> Null]
    /\ writtenSince = [h \in Handles |-> FALSE]
    /\ fs = [d \in Dirs |-> NoDir]
    /\ atCall = [d \in Dirs |-> NoDir]
    /\ last = NoCall
    /\ exportFs = [d \in ExportDirs |-> NoExportDir]
    /\ bundle = NoBundle
    /\ exportedAt = NoExport
    /\ dst = [cfs |-> {"default"}, data |-> NoData]
    /\ origin = [c \in CFNames |-> NoExport]
    /\ call = Idle
    /\ versions = <<NoData>>
    /\ mem = EmptyBundle
    /\ file = NoFile
    /\ out = NoOut
    /\ running = TRUE

\* Checkpoint::export_column_family(&self, cf, export_dir)
ExportColumnFamily(h, cf, path, io) ==
    /\ checkpoints[h] # Null
    /\ cf \in db.cfs
    /\ LET r == export_column_family(db, cf, exportFs, path, io) IN
        /\ exportFs' = r.disk
        /\ bundle' = IF r.ok THEN r.bundle ELSE bundle
        /\ exportedAt' = IF r.ok THEN [cf |-> cf, data |-> db.data[cf]] ELSE exportedAt
        /\ last' = Call("export_column_family", r.ok, path, h)
    /\ UNCHANGED <<db, checkpoints, writtenSince, fs, atCall, dst, origin, concVars, codecVars>>

\* Somebody deletes an exported file (the bundle still names it)
RemoveExportedFile(dir, name) ==
    /\ \E f \in exportFs[dir].files : f.name = name
    /\ exportFs' = [exportFs EXCEPT ![dir].files = {f \in @ : f.name # name}]
    /\ last' = Call("remove_file", TRUE, dir, 0)
    /\ UNCHANGED <<db, checkpoints, writtenSince, fs, atCall, bundle, exportedAt, dst, origin, concVars, codecVars>>

\* DB::create_cf_with_import(name, opts, &metadata) on the destination store;
\* comparator is the one opts configures
CreateCfWithImport(name, comparator) ==
    /\ bundle # NoBundle
    /\ LET r == create_cf_with_import(dst, name, comparator, bundle, exportFs) IN
        /\ dst' = r.store
        /\ origin' = IF r.err = "Ok" THEN [origin EXCEPT ![name] = exportedAt] ELSE origin
        /\ last' = [op |-> "create_cf_with_import", ok |-> r.err = "Ok", path |-> <<>>,
                    h |-> 0, dbOpen |-> db.open, err |-> r.err, name |-> name,
                    comparator |-> comparator]
    /\ UNCHANGED <<db, checkpoints, writtenSince, fs, atCall, exportFs, bundle, exportedAt, concVars, codecVars>>

\* values written to the source in SpecExport, and the one Checkpoint it uses
ExportVals == {"v1"}
ExportCFs == {"cf1", "cf2"}

NextExport ==
    \/ \E cf \in ExportCFs, k \in Keys, v \in ExportVals : Put(cf, k, v)
    \/ \E cf \in ExportCFs, k \in Keys : Delete(cf, k)
    \/ \E e \in BOOLEAN : CheckpointNew(1, e)
    \/ DropCheckpoint(1)
    \/ DropDB
    \/ \E cf \in ExportCFs, p \in ExportPaths, io \in BOOLEAN : ExportColumnFamily(1, cf, p, io)
    \/ \E d \in ExportDirs, k \in Keys : RemoveExportedFile(d, k)
    \/ \E n \in CFNames, c \in Comparators : CreateCfWithImport(n, c)

SpecExport == InitExport /\ [][NextExport]_vars

----------------------------------------------------------------------------
(* Claims checked under SpecExport *)

\* C3: a column family made by create_cf_with_import from the bundle of
\* export_column_family(cf, dir) holds exactly the key/value set cf held in the
\* source at export time, and the destination has no column family besides
\* "default" and the imported ones.
C3_ImportReproducesExport ==
    /\ \A n \in dst.cfs \ {"default"} :
          /\ origin[n].cf # ""
          /\ \A k \in Keys : DstGet(n, k) = origin[n].data[k]
    /\ \A n \in CFNames \ {"default"} : origin[n].cf = "" => n \notin dst.cfs

\* cf1 was exported holding a key, then imported; the source's cf1 has changed
\* since, cf2 holds a key the import does not show, and the destination has
\* no cf2
C3_Witness ==
    \E n \in dst.cfs \ {"default"}, k1 \in Keys, k2 \in Keys :
        /\ origin[n].cf = "cf1"
        /\ DstGet(n, k1) \in Vals
        /\ db.data["cf1"] # origin[n].data
        /\ db.data["cf2"][k2] \in Vals /\ DstGet(n, k2) = NoVal
        /\ dst.cfs = {"default", n}

\* one step: the error of a create_cf_with_import names a precondition that
\* failed, each failed precondition gives an error, and an error changes nothing
C7_Step ==
    last'.op = "create_cf_with_import" =>
        LET taken == last'.name \in dst.cfs
            mismatch == bundle.db_comparator_name # last'.comparator
            missing == \E i \in 1..Len(bundle.files) : FileOnDisk(exportFs, bundle.files[i]) = {}
        IN /\ taken => last'.err = "AlreadyExists"
           /\ mismatch => last'.err \in {"AlreadyExists", "ComparatorMismatch"}
           /\ missing => last'.err \in {"AlreadyExists", "ComparatorMismatch", "MissingFile"}
           /\ last'.err = "AlreadyExists" => taken
           /\ last'.err = "ComparatorMismatch" => mismatch
           /\ last'.err = "MissingFile" => missing
           /\ last'.err # "Ok" => dst' = dst

\* C7: create_cf_with_import fails with AlreadyExists, ComparatorMismatch or
\* MissingFile when the name is taken, the comparators differ or a file of the
\* bundle is gone, and a failed call leaves the destination store as it was.
C7_FailedImportCreatesNothing == [][C7_Step]_vars

\* an import has just failed with MissingFile although one of the bundle's two
\* files is still on disk, and the destination has only "default"
C7_WitnessMissingFile ==
    /\ last.op = "create_cf_with_import" /\ last.err = "MissingFile"
    /\ Len(bundle.files) = 2
    /\ \E i \in 1..2 : FileOnDisk(exportFs, bundle.files[i]) # {}
    /\ dst.cfs = {"default"}

\* an import under a name imported before has just failed with AlreadyExists
C7_WitnessAlreadyExists ==
    /\ last.op = "create_cf_with_import" /\ last.err = "AlreadyExists"
    /\ last.name # "default"
    /\ DstGet(last.name, "k1") = origin[last.name].data["k1"]

\* an import with another comparator has just failed with ComparatorMismatch
C7_WitnessComparatorMismatch ==
    /\ last.op = "create_cf_with_import" /\ last.err = "ComparatorMismatch"
    /\ bundle.files # <<>>
    /\ last.name \notin dst.cfs

----------------------------------------------------------------------------
(* SpecLifetime: Checkpoint objects and the store they borrow, with both of *)
(* the calls a Checkpoint offers                                            *)

NextLifetime ==
    \/ \E k \in Keys : Put("default", k, "v1")
    \/ \E h \in Handles, e \in BOOLEAN : CheckpointNew(h, e)
    \/ \E h \in Handles, io \in BOOLEAN : CreateCheckpoint(h, D1, io)
    \/ \E h \in Handles, io \in BOOLEAN : ExportColumnFamily(h, "default", E1, io)
    \/ \E h \in Handles : DropCheckpoint(h)
    \/ DropDB

SpecLifetime == Init /\ [][NextLifetime]_vars

\* C5: no Checkpoint is alive, and no create_checkpoint or export_column_family
\* has run, with the store the Checkpoint was made from already dropped.
C5_CheckpointNeverOutlivesStore ==
    /\ \A h \in Handles : checkpoints[h] # Null => db.open
    /\ last.op \in {"create_checkpoint", "export_column_family"} => last.dbOpen

\* the store was dropped after Checkpoints had made a checkpoint and an export
\* and had been dropped themselves
C5_Witness ==
    /\ ~db.open
    /\ fs[D1].present
    /\ exportFs[E1].present

----------------------------------------------------------------------------
(* SpecConc: create_checkpoint / export_column_family on one thread, a writer *)
(* on another.  Inside the engine the call captures a version of the store  *)
(* and then copies it out; the writer may run before, between and after.    *)

\* the store is open and one Checkpoint has been made before the threads start
InitConc ==
    /\ db = [open |-> TRUE, cfs |-> {"default"}, data |-> NoData]
    /\ checkpoints = [h \in Handles |-> IF h = 1 THEN Checkpoint_new(TRUE) ELSE Null]
    /\ writtenSince = [h \in Handles |-> FALSE]
    /\ fs = [d \in Dirs |-> NoDir]
    /\ atCall = [d \in Dirs |-> NoDir]
    /\ last = NoCall
    /\ exportFs = [d \in ExportDirs |-> NoExportDir]
    /\ bundle = NoBundle
    /\ exportedAt = NoExport
    /\ dst = [cfs |-> {"default"}, data |-> NoData]
    /\ origin = [c \in CFNames |-> NoExport]
    /\ call = Idle
    /\ versions = <<NoData>>
    /\ mem = EmptyBundle
    /\ file = NoFile
    /\ out = NoOut
    /\ running = TRUE

\* writer thread: DB::put
WriterPut(k, v) ==
    /\ db.open
    /\ Len(versions) <= MaxWrites
    /\ db' = [db EXCEPT !.data["default"][k] = v]
    /\ versions' = Append(versions, db'.data)
    /\ UNCHANGED <<checkpoints, writtenSince, fs, atCall, last, exportVars, call, codecVars>>

\* the one call of the run is made: create_checkpoint(path) or
\* export_column_family("default", path)
CallEnter(kind, path) ==
    /\ call.pc = "idle"
    /\ checkpoints[1] # Null
    /\ call' = [Idle EXCEPT !.pc = "entered", !.kind = kind, !.path = path,
                             !.lo = Len(versions)]
    /\ UNCHANGED <<storeVars, exportVars, versions, codecVars>>

\* inside the engine: the current version of the store is captured
EngineCapture ==
    /\ call.pc = "entered"
    /\ call' = [call EXCEPT !.pc = "captured", !.view = db.data]
    /\ UNCHANGED <<storeVars, exportVars, versions, codecVars>>

\* inside the engine: the captured version is copied out, and
\* create_checkpoint returns
ReturnCheckpoint(io) ==
    /\ call.pc = "captured"
    /\ call.kind = "create_checkpoint"
    /\ LET copied == VersionCopied([db EXCEPT !.data = call.view], db)
           r == create_checkpoint(copied, fs, call.path, io)
       IN /\ fs' = r.disk
          /\ call' = [call EXCEPT !.pc = "returned", !.ok = r.ok, !.hi = Len(versions)]
          /\ last' = Call("create_checkpoint", r.ok, call.path, 1)
    /\ UNCHANGED <<db, checkpoints, writtenSince, atCall, exportVars, versions, codecVars>>

\* the same for export_column_family
ReturnExport(io) ==
    /\ call.pc = "captured"
    /\ call.kind = "export_column_family"
    /\ LET copied == VersionCopied([db EXCEPT !.data = call.view], db)
           r == export_column_family(copied, "default", exportFs, call.path, io)
       IN /\ exportFs' = r.disk
          /\ bundle' = IF r.ok THEN r.bundle ELSE bundle
          /\ call' = [call EXCEPT !.pc = "returned", !.ok = r.ok, !.hi = Len(versions)]
          /\ last' = Call("export_column_family", r.ok, call.path, 1)
    /\ UNCHANGED <<db, checkpoints, writtenSince, fs, atCall, exportedAt, dst, origin,
                   versions, codecVars>>

NextConc ==
    \/ \E k \in Keys, v \in Vals : WriterPut(k, v)
    \/ \E p \in Paths : CallEnter("create_checkpoint", p)
    \/ \E p \in ExportPaths : CallEnter("export_column_family", p)
    \/ EngineCapture
    \/ \E io \in BOOLEAN : ReturnCheckpoint(io)
    \/ \E io \in BOOLEAN : ReturnExport(io)

SpecConc == InitConc /\ [][NextConc]_vars

\* the files of an export directory, as the content they hold
ExportedContent(dir) ==
    [k \in Keys |->
        IF \E f \in exportFs[dir].files : f.key = k
        THEN (CHOOSE f \in exportFs[dir].files : f.key = k).val
        ELSE NoVal]

\* C6: a create_checkpoint or export_column_family that ran beside a writer
\* and returned Ok produced one version of the store: the content after some
\* write, for all keys at once, that was current at some instant of the call.
C6_SingleVersion ==
    (call.pc = "returned" /\ call.ok) =>
        \E i \in call.lo..call.hi :
            IF call.kind = "create_checkpoint"
            THEN fs[call.path].present /\ fs[call.path].data = versions[i]
            ELSE /\ exportFs[call.path].present
                 /\ ExportedContent(call.path) = versions[i]["default"]

\* a checkpoint returned Ok with writes made before the call, during it before
\* the capture, and during it after the capture, and holds exactly the writes
\* made before the capture
C6_Witness ==
    /\ call.pc = "returned" /\ call.ok /\ call.kind = "create_checkpoint"
    /\ 1 < call.lo /\ call.lo + 1 < call.hi
    /\ fs[call.path].data = versions[call.lo + 1]
    /\ \A i \in 1..Len(versions) : i # call.lo + 1 => versions[i] # fs[call.path].data

\* the same for an export
C6_WitnessExport ==
    /\ call.pc = "returned" /\ call.ok /\ call.kind = "export_column_family"
    /\ 1 < call.lo /\ call.lo + 1 < call.hi
    /\ ExportedContent(call.path) = versions[call.lo + 1]["default"]
    /\ \A i \in 1..Len(versions) :
          i # call.lo + 1 => versions[i]["default"] # ExportedContent(call.path)

----------------------------------------------------------------------------
(* SpecCodec: ExportImportFilesMetaData::save and ::load on one path *)

\* the client holds some valid bundle; nothing is at the path yet
InitCodec ==
    /\ db = [open |-> TRUE, cfs |-> {"default"}, data |-> NoData]
    /\ checkpoints = [h \in Handles |-> Null]
    /\ writtenSince = [h \in Handles |-> FALSE]
    /\ fs = [d \in Dirs |-> NoDir]
    /\ atCall = [d \in Dirs |-> NoDir]
    /\ last = NoCall
    /\ exportFs = [d \in ExportDirs |-> NoExportDir]
    /\ bundle = NoBundle
    /\ exportedAt = NoExport
    /\ dst = [cfs |-> {"default"}, data |-> NoData]
    /\ origin = [c \in CFNames |-> NoExport]
    /\ call = Idle
    /\ versions = <<NoData>>
    /\ mem \in Bundles
    /\ file = NoFile
    /\ out = NoOut
    /\ running = TRUE

\* metadata.save(path)
Save(createOk, marshalOk, writeOk) ==
    /\ running
    /\ LET r == save(mem, file, createOk, marshalOk, writeOk) IN
        /\ file' = r.file
        /\ out' = [op |-> "save", res |-> r.res, created |-> createOk,
                   bundle |-> EmptyBundle, wellFormed |-> TRUE]
        /\ running' = (r.res # "Panic")
    /\ UNCHANGED <<storeVars, exportVars, concVars, mem>>

\* ExportImportFilesMetaData::load(path)
Load(openOk, readOk, engineOk) ==
    /\ running
    /\ LET r == load(file, openOk, readOk, engineOk) IN
        /\ out' = [op |-> "load", res |-> r.res, created |-> FALSE, bundle |-> r.bundle,
                   wellFormed |-> from_str(file.text).ok]
        /\ running' = (r.res # "Panic")
    /\ UNCHANGED <<storeVars, exportVars, concVars, mem, file>>

\* Text that does not fit the schema: no JSON at all, an object without
\* "files", a file object without "size"
Malformed ==
    {NotJson("garbage"),
     JsonText([db_comparator_name |-> <<65>>]),
     JsonText([db_comparator_name |-> <<65>>, files |-> <<[name |-> <<65>>]>>])}

\* Something else writes the file at the path
WriteForeign(text) ==
    /\ running
    /\ file' = [present |-> TRUE, text |-> text, by |-> "other"]
    /\ UNCHANGED <<storeVars, exportVars, concVars, mem, out, running>>

NextCodec ==
    \/ \E c \in BOOLEAN, m \in BOOLEAN, w \in BOOLEAN : Save(c, m, w)
    \/ \E o \in BOOLEAN, r \in BOOLEAN, e \in BOOLEAN : Load(o, r, e)
    \/ \E t \in Malformed : WriteForeign(t)

SpecCodec == InitCodec /\ [][NextCodec]_vars

\* C4: for every valid bundle, save never panics, and a load of the file a
\* successful save wrote yields, unless opening, reading or the engine fails,
\* a bundle equal to the saved one field for field.
C4_RoundTrip ==
    /\ out.op = "save" => out.res # "Panic"
    /\ (out.op = "load" /\ file.present /\ file.by = "save" /\ file.text.kind = "json") =>
          \/ out.res \in {"OpenFailed", "ReadFailed", "EngineError"}
          \/ out.res = "Ok" /\ out.bundle = mem

\* What does hold: a bundle whose strings hold no NUL and whose file sizes fit
\* an i32 is saved without panic and loads back equal.
Representable(b) ==
    /\ \A i \in 1..Len(b.files) : FileCStringsOk(b.files[i]) /\ FileObjectOk(b.files[i])
    /\ \A i \in 1..Len(b.db_comparator_name) : b.db_comparator_name[i] # 0
RoundTripWhereRepresentable ==
    Representable(mem) =>
        /\ out.op = "save" => out.res # "Panic"
        /\ (out.op = "load" /\ file.present /\ file.by = "save" /\ file.text.kind = "json") =>
              \/ out.res \in {"OpenFailed", "ReadFailed", "EngineError"}
              \/ out.res = "Ok" /\ out.bundle = mem
RoundTripWitness ==
    /\ out.op = "load" /\ out.res = "Ok" /\ out.bundle = mem /\ Len(mem.files) > 0
    /\ mem.files[1].size = I32MaxMiB /\ mem.files[1].smallestkey = <<65>>

\* C9: load of a file that is there but does not fit the schema returns an
\* error value and does not panic.
C9_MalformedIsError ==
    (out.op = "load" /\ file.present /\ ~out.wellFormed) =>
        (running /\ out.res \in {"OpenFailed", "ReadFailed", "Malformed"})

\* C10: save returns the create-failed error exactly when File::create failed,
\* and every other failure of save, which leaves the created file behind, is
\* returned as the write-failed error.
C10_SaveFailureByPhase ==
    out.op = "save" =>
        /\ out.res = "CreateFailed" <=> ~out.created
        /\ (out.created /\ out.res # "Ok") => out.res = "WriteFailed"

====
